---------------------------- MODULE Spec2Model ----------------------------
(***************************************************************************)
(* Model of the upload relay and of the save-analysis endpoint.            *)
(*                                                                         *)
(* Two programs are modelled, selected by the variable `variant`:          *)
(*   "memory"  src/server.js           multer.memoryStorage(), 10 MiB      *)
(*   "disk"    src/unnamed/part_000    multer({dest: "uploads/"})          *)
(* A behaviour is one run of one of the two server processes, serving up   *)
(* to MaxReqs requests whose handlers interleave at their await points.    *)
(***************************************************************************)
EXTENDS Integers, Sequences, FiniteSets, TLC

VARIABLES
    variant,   \* which of the two programs is running
    pc,        \* per request: position of the request in its route
    kind,      \* per request: "upload" | "save" (the route it was sent to)
    upl,       \* per request: the file part the client sent (or none)
    reqFile,   \* per request: req.file as multer left it
    calls,     \* per request: the axios.post calls issued to the webhook
    outcome,   \* per request: how the webhook call settled
    thrown,    \* per request: where a non-axios exception was raised
    resp,      \* per request: the responses written to the client
    files,     \* the uploads/ directory: path -> content
    fsLog,     \* per request: the fs calls made by the handler
    nextSeq,   \* number of files multer has staged so far
    payload,   \* per request: JSON body of a save-analysis request
    tokenRes,  \* per request: how the OAuth token exchange settled
    out        \* per request: what the request wrote to the console

vars == <<variant, pc, kind, upl, reqFile, calls, outcome, thrown, resp,
          files, fsLog, nextSeq, payload, tokenRes, out>>

---------------------------------------------------------------------------
(* Bounds and program constants *)

MaxReqs == 2

Reqs == 1..MaxReqs

\* limits: { fileSize: 10 * 1024 * 1024 }
FileSizeLimit == 10485760

\* timeout: 300000 (memory variant)
MemoryTimeoutMs == 300000

\* timeout: 30000 (disk variant)
DiskTimeoutMs == 30000

Variants == {"memory", "disk"}

MemoryUrl == "https://opticat.app.n8n.cloud/webhook/04d3ce21-08a5-4ac9-90a9-4fe11789804d"

DiskUrl == "https://opticat.app.n8n.cloud/webhook-test/04d3ce21-08a5-4ac9-90a9-4fe11789804d"

---------------------------------------------------------------------------
(* Client inputs *)

NoPath == <<>>

NoUpload == [present |-> FALSE, originalname |-> "", content |-> "", size |-> 0]

\* The multipart bodies a client sends: no `resume` part, or one file.
ClientUploads ==
    { NoUpload,
      [present |-> TRUE, originalname |-> "cv.pdf",  content |-> "bytesA", size |-> 2048],
      [present |-> TRUE, originalname |-> "cv.pdf",  content |-> "bytesB", size |-> 2048],
      [present |-> TRUE, originalname |-> "big.pdf", content |-> "bytesA", size |-> FileSizeLimit + 1] }

NoData == [parsed |-> FALSE]

NoOutcome == [kind |-> "none", status |-> 0, data |-> NoData]

\* The ways the webhook call can end.
DownstreamOutcomes ==
    { [kind |-> "response", status |-> 200, data |-> [parsed |-> TRUE]],
      [kind |-> "response", status |-> 299, data |-> [parsed |-> FALSE]],
      [kind |-> "response", status |-> 404, data |-> [parsed |-> FALSE]],
      [kind |-> "response", status |-> 500, data |-> [parsed |-> TRUE]],
      [kind |-> "timeout",  status |-> 0,   data |-> NoData],
      [kind |-> "network",  status |-> 0,   data |-> NoData],
      [kind |-> "setup",    status |-> 0,   data |-> NoData] }

---------------------------------------------------------------------------
(* The staging directory *)

Exists(fs, p) == p \in DOMAIN fs

WriteFile(fs, p, c) == [q \in DOMAIN fs \cup {p} |-> IF q = p THEN c ELSE fs[q]]

Unlink(fs, p) == [q \in DOMAIN fs \ {p} |-> fs[q]]

\* Content delivered by fs.createReadStream(p); a missing file delivers nothing.
ReadFile(fs, p) == IF Exists(fs, p) THEN fs[p] ELSE ""


---------------------------------------------------------------------------
(* multer: upload.single("resume") *)

\* memoryStorage has limits.fileSize; the disk variant sets no limit.
WithinLimit(v, size) == v = "disk" \/ size <= FileSizeLimit

\* Names multer draws for staged files (random hex, never repeated).
HexNames == <<"a1f0", "b2e1", "c3d2", "d4c3">>

\* A bug: the staged file is named after the client's filename.
NewFilenameFromOriginal(seq, originalname) == originalname

NewFilename(seq, originalname) == HexNames[seq + 1]

StagedPath(filename) == <<"uploads", filename>>

NoFile ==
    [present |-> FALSE, originalname |-> "", buffer |-> "", filename |-> "",
     path |-> NoPath, size |-> 0]

\* req.file for an accepted file part.
MulterFile(v, u, seq) ==
    IF v = "memory"
    THEN [present |-> TRUE, originalname |-> u.originalname, buffer |-> u.content,
          filename |-> "", path |-> NoPath, size |-> u.size]
    ELSE [present |-> TRUE, originalname |-> u.originalname, buffer |-> "",
          filename |-> NewFilename(seq, u.originalname),
          path |-> StagedPath(NewFilename(seq, u.originalname)), size |-> u.size]

---------------------------------------------------------------------------
(* Responses *)

Json(status, body) == [status |-> status, type |-> "json", body |-> body]

\* No error middleware is registered: an error passed to next() is answered
\* by the framework's default handler, an HTML page with status 500.
DefaultErrorResponse(name) ==
    [status |-> 500, type |-> "html", body |-> [html |-> name]]

MissingFileResponse(v) ==
    IF v = "memory"
    THEN Json(400, [error |-> "File missing"])
    ELSE Json(400, [success |-> FALSE, message |-> "File missing"])

\* A bug: the downstream body is dropped from the success response.
SuccessResponseWithoutData(v, data) ==
    IF v = "memory"
    THEN Json(200, [success |-> TRUE])
    ELSE Json(200, [success |-> TRUE, message |-> "File processed successfully"])

SuccessResponse(v, data) ==
    IF v = "memory"
    THEN Json(200, data)
    ELSE Json(200, [success |-> TRUE, data |-> data,
                    message |-> "File processed successfully"])

JSONStringify(data) == ToString(data)

---------------------------------------------------------------------------
(* axios.post *)

ValidateStatus(s) == s >= 200 /\ s < 300

NoError ==
    [code |-> "", hasResponse |-> FALSE, status |-> 0, data |-> NoData,
     hasRequest |-> FALSE, message |-> ""]

\* An exception that does not come from axios (no response, no request).
PlainError(msg) == [NoError EXCEPT !.message = msg]

\* The settled promise: resolved with data, or rejected with an error.
AxiosPost(o) ==
    IF o.kind = "response" /\ ValidateStatus(o.status)
    THEN [resolved |-> TRUE, data |-> o.data, error |-> NoError]
    ELSE [resolved |-> FALSE, data |-> NoData, error |->
          CASE o.kind = "response" ->
                 [code |-> "ERR_BAD_RESPONSE", hasResponse |-> TRUE,
                  status |-> o.status, data |-> o.data, hasRequest |-> TRUE,
                  message |-> "Request failed with status code " \o ToString(o.status)]
            [] o.kind = "timeout" ->
                 [code |-> "ECONNABORTED", hasResponse |-> FALSE, status |-> 0,
                  data |-> NoData, hasRequest |-> TRUE,
                  message |-> "timeout exceeded"]
            [] o.kind = "network" ->
                 [code |-> "ECONNREFUSED", hasResponse |-> FALSE, status |-> 0,
                  data |-> NoData, hasRequest |-> TRUE,
                  message |-> "connect ECONNREFUSED"]
            [] OTHER ->
                 PlainError("request setup failed")]


---------------------------------------------------------------------------
(* POST /api/upload: the catch block's mapping of an error to a response *)

\* A bug: the 502 response leaves out the downstream body.
MemoryErrorResponseNoDetails(error) ==
    IF error.code = "ECONNABORTED"
    THEN Json(504, [error |-> "Request timeout - server took too long to respond"])
    ELSE IF error.hasResponse
    THEN Json(502, [error |-> "N8N Error: " \o ToString(error.status)])
    ELSE IF error.hasRequest
    THEN Json(503, [error |-> "Cannot reach N8N service"])
    ELSE Json(500, [error |-> error.message])

MemoryErrorResponse(error) ==
    IF error.code = "ECONNABORTED"
    THEN Json(504, [error |-> "Request timeout - server took too long to respond"])
    ELSE IF error.hasResponse
    THEN Json(502, [error |-> "N8N Error: " \o ToString(error.status),
                    details |-> error.data])
    ELSE IF error.hasRequest
    THEN Json(503, [error |-> "Cannot reach N8N service"])
    ELSE Json(500, [error |-> error.message])

\* A bug: the branch on error.request is missing.
DiskErrorResponseNoRequestBranch(error) ==
    IF error.hasResponse
    THEN Json(502, [success |-> FALSE,
                    message |-> "N8N Error: " \o ToString(error.status) \o " - "
                                \o JSONStringify(error.data)])
    ELSE Json(500, [success |-> FALSE, message |-> error.message])

DiskErrorResponse(error) ==
    IF error.hasResponse
    THEN Json(502, [success |-> FALSE,
                    message |-> "N8N Error: " \o ToString(error.status) \o " - "
                                \o JSONStringify(error.data)])
    ELSE IF error.hasRequest
    THEN Json(503, [success |-> FALSE, message |-> "Cannot reach N8N service"])
    ELSE Json(500, [success |-> FALSE, message |-> error.message])

ErrorResponse(v, error) ==
    IF v = "memory" THEN MemoryErrorResponse(error) ELSE DiskErrorResponse(error)

---------------------------------------------------------------------------
(* POST /api/upload: cleanup of the staged file (disk variant only) *)

FsCall(op, p, found) == [op |-> op, path |-> p, found |-> found]

NoCleanup(fs) == [files |-> fs, log |-> <<>>]

\* A bug: the file is unlinked without testing that it is still there.
CleanupUnguarded(v, filePath, fs) ==
    IF v = "memory" \/ filePath = NoPath
    THEN NoCleanup(fs)
    ELSE [files |-> Unlink(fs, filePath),
          log   |-> <<FsCall("unlinkSync", filePath, Exists(fs, filePath))>>]

\* if (filePath && fs.existsSync(filePath)) fs.unlinkSync(filePath);
Cleanup(v, filePath, fs) ==
    IF v = "memory" \/ filePath = NoPath
    THEN NoCleanup(fs)
    ELSE IF Exists(fs, filePath)
    THEN [files |-> Unlink(fs, filePath),
          log   |-> <<FsCall("existsSync", filePath, TRUE),
                      FsCall("unlinkSync", filePath, TRUE)>>]
    ELSE [files |-> fs, log |-> <<FsCall("existsSync", filePath, FALSE)>>]

---------------------------------------------------------------------------
(* POST /api/upload: the outbound request *)

\* A bug: the staged name is forwarded instead of the client's filename.
OutboundCallStagedName(v, file, fs) ==
    [url      |-> IF v = "memory" THEN MemoryUrl ELSE DiskUrl,
     field    |-> "resume",
     filename |-> file.filename,
     bytes    |-> IF v = "memory" THEN file.buffer ELSE ReadFile(fs, file.path),
     timeout  |-> IF v = "memory" THEN MemoryTimeoutMs ELSE DiskTimeoutMs]

\* formData.append("resume", <buffer | read stream>, originalname); axios.post(...)
OutboundCall(v, file, fs) ==
    [url      |-> IF v = "memory" THEN MemoryUrl ELSE DiskUrl,
     field    |-> "resume",
     filename |-> file.originalname,
     bytes    |-> IF v = "memory" THEN file.buffer ELSE ReadFile(fs, file.path),
     timeout  |-> IF v = "memory" THEN MemoryTimeoutMs ELSE DiskTimeoutMs]

\* A bug: the handler forwards without testing req.file.
HasFileAlways(file) == TRUE

\* if (!req.file) return res.status(400)...
HasFile(file) == file.present


---------------------------------------------------------------------------
(* POST /api/save-analysis: inputs *)

NoObj == [present |-> FALSE, cats |-> <<>>]

\* One category holding an array with one item.
GoodObj ==
    [present |-> TRUE,
     cats |-> <<[name |-> "skills", items |-> [isArray |-> TRUE, elems |-> <<"java">>]]>>]

\* One category holding a non-empty value that is not an array (a string).
BadObj ==
    [present |-> TRUE,
     cats |-> <<[name |-> "skills", items |-> [isArray |-> FALSE, elems |-> <<"j">>]]>>]

NoPayload == [fileId |-> "", analysed |-> NoObj, edited |-> NoObj]

Payloads ==
    { [fileId |-> "cv.pdf", analysed |-> NoObj,   edited |-> NoObj],
      [fileId |-> "cv.pdf", analysed |-> GoodObj, edited |-> GoodObj],
      [fileId |-> "cv.pdf", analysed |-> BadObj,  edited |-> GoodObj],
      [fileId |-> "cv.pdf", analysed |-> GoodObj, edited |-> BadObj] }

NoToken == [ok |-> FALSE, instance_url |-> "", message |-> ""]

\* The ways the OAuth token exchange can end.
TokenOutcomes ==
    { [ok |-> TRUE,  instance_url |-> "https://example.my.salesforce.com", message |-> ""],
      [ok |-> FALSE, instance_url |-> "", message |-> "Request failed with status code 400"] }

---------------------------------------------------------------------------
(* simulateSalesforceSave / fetchSalesforceAccessToken *)

ItemLines(tag, n) == [i \in 1..n |-> tag \o "-item"]

RECURSIVE CategoryLines(_, _)
\* Object.keys(obj).forEach(...): one line per key, then one per item;
\* items.forEach throws when a non-empty value is not an array.
CategoryLines(cats, tag) ==
    IF cats = <<>>
    THEN [lines |-> <<>>, threw |-> FALSE]
    ELSE LET c    == Head(cats)
             line == <<tag \o "-category">>
         IN  IF Len(c.items.elems) > 0 /\ ~c.items.isArray
             THEN [lines |-> line, threw |-> TRUE]
             ELSE LET rest == CategoryLines(Tail(cats), tag)
                  IN  [lines |-> line \o ItemLines(tag, Len(c.items.elems)) \o rest.lines,
                       threw |-> rest.threw]

SummaryLines(obj, tag) ==
    IF obj.present
    THEN LET body == CategoryLines(obj.cats, tag)
         IN  [lines |-> <<tag \o "-summary">> \o body.lines, threw |-> body.threw]
    ELSE [lines |-> <<tag \o "-summary">>, threw |-> FALSE]

\* A bug: the record is written out before the token is fetched.
BeforeTokenLogWithRecord(p) == <<"received", "connecting", "record", "token-request">>

\* Console output up to the await of the token request.
BeforeTokenLog(p) == <<"received", "connecting", "token-request">>

\* The rest of simulateSalesforceSave once the token request has settled:
\* the console output, and the result or the exception's message.
AfterToken(p, tok) ==
    IF ~tok.ok
    THEN [lines |-> <<"oauth-error", "connection-failed">>,
          ok |-> FALSE, message |-> tok.message, salesforceId |-> ""]
    ELSE LET a == SummaryLines(p.analysed, "analysis")
             e == SummaryLines(p.edited, "edited")
             head == <<"token-ok", "connected", "record">>
         IN  IF a.threw
             THEN [lines |-> head \o a.lines \o <<"connection-failed">>,
                   ok |-> FALSE, message |-> "items.forEach is not a function",
                   salesforceId |-> ""]
             ELSE IF e.threw
             THEN [lines |-> head \o a.lines \o e.lines \o <<"connection-failed">>,
                   ok |-> FALSE, message |-> "items.forEach is not a function",
                   salesforceId |-> ""]
             ELSE [lines |-> head \o a.lines \o e.lines \o <<"simulated-ok">>,
                   ok |-> TRUE, message |-> "",
                   salesforceId |-> "SIMULATED-RECORD-ID-12345"]

SaveSuccessResponse(saveResult) ==
    Json(200, [success |-> TRUE, salesforceId |-> saveResult.salesforceId,
               savedAt |-> "now"])

SaveFailureResponse(message) ==
    Json(500, [success |-> FALSE,
               error |-> "Failed to prepare data for Salesforce: " \o message])


---------------------------------------------------------------------------
(* State machine *)

Init ==
    /\ variant \in Variants
    /\ pc       = [r \in Reqs |-> "idle"]
    /\ kind     = [r \in Reqs |-> "none"]
    /\ upl      = [r \in Reqs |-> NoUpload]
    /\ reqFile  = [r \in Reqs |-> NoFile]
    /\ calls    = [r \in Reqs |-> <<>>]
    /\ outcome  = [r \in Reqs |-> NoOutcome]
    /\ thrown   = [r \in Reqs |-> "none"]
    /\ resp     = [r \in Reqs |-> <<>>]
    /\ files    = [q \in {} |-> ""]
    /\ fsLog    = [r \in Reqs |-> <<>>]
    /\ nextSeq  = 0
    /\ payload  = [r \in Reqs |-> NoPayload]
    /\ tokenRes = [r \in Reqs |-> NoToken]
    /\ out      = [r \in Reqs |-> <<>>]

\* Requests are numbered in the order in which they arrive.
MayArrive(r) == pc[r] = "idle" /\ \A q \in Reqs : q < r => pc[q] # "idle"

\* A client sends a multipart request to POST /api/upload.
ArriveUpload(r) ==
    /\ MayArrive(r)
    /\ \E u \in ClientUploads : upl' = [upl EXCEPT ![r] = u]
    /\ kind' = [kind EXCEPT ![r] = "upload"]
    /\ pc'   = [pc EXCEPT ![r] = "arrived"]
    /\ UNCHANGED <<variant, reqFile, calls, outcome, thrown, resp, files, fsLog,
                   nextSeq, payload, tokenRes, out>>

\* upload.single("resume"): rejects a file over the limit with next(err),
\* otherwise sets req.file (staging the file on disk in the disk variant).
Multer(r) ==
    /\ pc[r] = "arrived" /\ kind[r] = "upload"
    /\ LET u == upl[r] IN
       IF u.present /\ ~WithinLimit(variant, u.size)
       THEN /\ resp' = [resp EXCEPT ![r] = Append(@, DefaultErrorResponse("MulterError: File too large"))]
            /\ pc'   = [pc EXCEPT ![r] = "done"]
            /\ UNCHANGED <<reqFile, files, nextSeq>>
       ELSE IF u.present
       THEN LET f == MulterFile(variant, u, nextSeq) IN
            /\ reqFile' = [reqFile EXCEPT ![r] = f]
            /\ files'   = IF variant = "disk" THEN WriteFile(files, f.path, u.content) ELSE files
            /\ nextSeq' = IF variant = "disk" THEN nextSeq + 1 ELSE nextSeq
            /\ pc'      = [pc EXCEPT ![r] = "handler"]
            /\ UNCHANGED resp
       ELSE /\ pc' = [pc EXCEPT ![r] = "handler"]
            /\ UNCHANGED <<reqFile, files, nextSeq, resp>>
    /\ UNCHANGED <<variant, kind, upl, calls, outcome, thrown, fsLog, payload,
                   tokenRes, out>>

\* The catch block: cleanup, then the error's response.
CatchBlock(r, error, fs) ==
    LET c == Cleanup(variant, reqFile[r].path, fs) IN
    /\ files' = c.files
    /\ fsLog' = [fsLog EXCEPT ![r] = @ \o c.log]
    /\ resp'  = [resp EXCEPT ![r] = Append(@, ErrorResponse(variant, error))]

\* The handler from its entry to the await of axios.post.  With `throws`, a
\* statement between the file check and the dispatch raises an exception.
UploadHandler(r, throws) ==
    /\ pc[r] = "handler" /\ kind[r] = "upload"
    /\ IF ~HasFile(reqFile[r])
       THEN /\ ~throws
            /\ resp' = [resp EXCEPT ![r] = Append(@, MissingFileResponse(variant))]
            /\ pc'   = [pc EXCEPT ![r] = "done"]
            /\ UNCHANGED <<calls, files, fsLog, thrown>>
       ELSE IF throws
       THEN /\ CatchBlock(r, PlainError("exception before dispatch"), files)
            /\ thrown' = [thrown EXCEPT ![r] = "before-dispatch"]
            /\ pc'     = [pc EXCEPT ![r] = "done"]
            /\ UNCHANGED calls
       ELSE /\ calls' = [calls EXCEPT ![r] = Append(@, OutboundCall(variant, reqFile[r], files))]
            /\ pc'    = [pc EXCEPT ![r] = "await"]
            /\ UNCHANGED <<resp, files, fsLog, thrown>>
    /\ UNCHANGED <<variant, kind, upl, reqFile, outcome, nextSeq, payload,
                   tokenRes, out>>

\* The handler from the settling of axios.post to its end.  With `throws`,
\* res.json raises an exception on the success path.
UploadSettle(r, throws) ==
    /\ pc[r] = "await" /\ kind[r] = "upload"
    /\ \E o \in DownstreamOutcomes :
         LET result == AxiosPost(o) IN
         /\ outcome' = [outcome EXCEPT ![r] = o]
         /\ IF result.resolved
            THEN LET c == Cleanup(variant, reqFile[r].path, files) IN
                 IF throws
                 THEN LET c2 == Cleanup(variant, reqFile[r].path, c.files) IN
                      /\ files'  = c2.files
                      /\ fsLog'  = [fsLog EXCEPT ![r] = @ \o c.log \o c2.log]
                      /\ resp'   = [resp EXCEPT ![r] =
                                      Append(@, ErrorResponse(variant, PlainError("exception in res.json")))]
                      /\ thrown' = [thrown EXCEPT ![r] = "sending-response"]
                 ELSE /\ files' = c.files
                      /\ fsLog' = [fsLog EXCEPT ![r] = @ \o c.log]
                      /\ resp'  = [resp EXCEPT ![r] = Append(@, SuccessResponse(variant, result.data))]
                      /\ UNCHANGED thrown
            ELSE /\ ~throws
                 /\ CatchBlock(r, result.error, files)
                 /\ UNCHANGED thrown
    /\ pc' = [pc EXCEPT ![r] = "done"]
    /\ UNCHANGED <<variant, kind, upl, reqFile, calls, nextSeq, payload,
                   tokenRes, out>>

\* A client sends a JSON body to POST /api/save-analysis (server.js only).
ArriveSave(r) ==
    /\ MayArrive(r)
    /\ variant = "memory"
    /\ \E p \in Payloads : payload' = [payload EXCEPT ![r] = p]
    /\ kind' = [kind EXCEPT ![r] = "save"]
    /\ pc'   = [pc EXCEPT ![r] = "handler"]
    /\ UNCHANGED <<variant, upl, reqFile, calls, outcome, thrown, resp, files,
                   fsLog, nextSeq, tokenRes, out>>

\* The handler, simulateSalesforceSave and fetchSalesforceAccessToken up to
\* the await of the token request.
SaveHandler(r) ==
    /\ pc[r] = "handler" /\ kind[r] = "save"
    /\ out' = [out EXCEPT ![r] = @ \o BeforeTokenLog(payload[r])]
    /\ pc'  = [pc EXCEPT ![r] = "await-token"]
    /\ UNCHANGED <<variant, kind, upl, reqFile, calls, outcome, thrown, resp,
                   files, fsLog, nextSeq, payload, tokenRes>>

\* From the settling of the token request to the end of the handler.
TokenSettle(r) ==
    /\ pc[r] = "await-token" /\ kind[r] = "save"
    /\ \E tok \in TokenOutcomes :
         LET s == AfterToken(payload[r], tok) IN
         /\ tokenRes' = [tokenRes EXCEPT ![r] = tok]
         /\ IF s.ok
            THEN /\ out'  = [out EXCEPT ![r] = @ \o s.lines]
                 /\ resp' = [resp EXCEPT ![r] = Append(@, SaveSuccessResponse(s))]
            ELSE /\ out'  = [out EXCEPT ![r] = @ \o s.lines \o <<"handler-error">>]
                 /\ resp' = [resp EXCEPT ![r] = Append(@, SaveFailureResponse(s.message))]
    /\ pc' = [pc EXCEPT ![r] = "done"]
    /\ UNCHANGED <<variant, kind, upl, reqFile, calls, outcome, thrown, files,
                   fsLog, nextSeq, payload>>

Next ==
    \E r \in Reqs :
        \/ ArriveUpload(r)
        \/ Multer(r)
        \/ UploadHandler(r, FALSE)
        \/ UploadSettle(r, FALSE)
        \/ ArriveSave(r)
        \/ SaveHandler(r)
        \/ TokenSettle(r)

Spec == Init /\ [][Next]_vars

\* The same program where, in addition, a statement of the try block other
\* than the cleanup may raise an exception.
NextExc ==
    \/ Next
    \/ \E r \in Reqs :
        \/ UploadHandler(r, TRUE)
        \/ UploadSettle(r, TRUE)

SpecExc == Init /\ [][NextExc]_vars


---------------------------------------------------------------------------
(* Properties *)

IsUpload(r) == kind[r] = "upload"

Done(r) == pc[r] = "done"

Is2xx(o) == o.kind = "response" /\ o.status >= 200 /\ o.status < 300

IsNon2xx(o) == o.kind = "response" /\ ~(o.status >= 200 /\ o.status < 300)

Unlinks(r) == {i \in DOMAIN fsLog[r] : fsLog[r][i].op = "unlinkSync"}

Staged(r) == variant = "disk" /\ reqFile[r].present

\* C1: in the disk variant, on every path of the upload handler (missing
\* file, downstream success, non-2xx, unreachable, timeout, any other
\* exception, including one raised between staging and dispatch or while
\* sending the response), the file staged for the request is unlinked
\* exactly once by the time the request has ended: it is no longer on disk,
\* and unlink is never called on a file that is already gone.
C1_StagedFileDeletedExactlyOnce ==
    variant = "disk" =>
      \A r \in Reqs : IsUpload(r) =>
        /\ \A i \in Unlinks(r) : fsLog[r][i].found
        /\ Cardinality(Unlinks(r)) <= 1
        /\ Done(r) =>
             /\ Cardinality(Unlinks(r)) = (IF Staged(r) THEN 1 ELSE 0)
             /\ Staged(r) => ~Exists(files, reqFile[r].path)

\* A request of the disk variant ended after res.json raised on the success
\* path: the catch block ran after the try block had already unlinked.
C1_Witness ==
    \E r \in Reqs :
        /\ variant = "disk" /\ Done(r) /\ Staged(r)
        /\ thrown[r] = "sending-response"
        /\ Cardinality(Unlinks(r)) = 1
        /\ \E q \in Reqs : Done(q) /\ Staged(q) /\ thrown[q] = "before-dispatch"

\* C2: a request carrying one file within the size limit issues exactly one
\* POST to the webhook, with the single field `resume` holding the uploaded
\* bytes under the original filename; nothing is retried or deduplicated, so
\* two identical requests issue two calls.
C2_ExactlyOneOutboundCall ==
    \A r \in Reqs :
      (IsUpload(r) /\ upl[r].present /\ upl[r].size <= FileSizeLimit) =>
        /\ Len(calls[r]) <= 1
        /\ pc[r] \in {"await", "done"} =>
             /\ Len(calls[r]) = 1
             /\ calls[r][1].field = "resume"
             /\ calls[r][1].bytes = upl[r].content
             /\ calls[r][1].filename = upl[r].originalname

\* Two identical requests have both ended, each with its own call.
C2_Witness ==
    \E r, q \in Reqs :
        /\ r # q /\ IsUpload(r) /\ IsUpload(q) /\ Done(r) /\ Done(q)
        /\ upl[r].present /\ upl[r] = upl[q] /\ upl[r].size <= FileSizeLimit
        /\ Len(calls[r]) = 1 /\ Len(calls[q]) = 1

SaysFileMissing(body) ==
    IF variant = "memory"
    THEN "error" \in DOMAIN body /\ body.error = "File missing"
    ELSE "message" \in DOMAIN body /\ body.message = "File missing"

\* C3: a request without a file in `resume` is answered 400 with a body
\* saying that the file is missing, and no call to the webhook is made.
C3_MissingFileIs400 ==
    \A r \in Reqs :
      (IsUpload(r) /\ ~upl[r].present) =>
        /\ calls[r] = <<>>
        /\ Done(r) =>
             /\ Len(resp[r]) = 1
             /\ resp[r][1].status = 400
             /\ SaysFileMissing(resp[r][1].body)

C3_Witness ==
    \E r \in Reqs : IsUpload(r) /\ ~upl[r].present /\ Done(r) /\ Len(resp[r]) = 1

\* C4: when the webhook answers 2xx the relay answers 200 with the
\* downstream body unchanged: as the whole body in the memory variant,
\* as {success: true, data, message} in the disk variant.
C4_SuccessPassesBodyThrough ==
    \A r \in Reqs :
      (IsUpload(r) /\ Done(r) /\ Is2xx(outcome[r])) =>
        /\ Len(resp[r]) = 1
        /\ resp[r][1].status = 200
        /\ resp[r][1].type = "json"
        /\ IF variant = "memory"
           THEN resp[r][1].body = outcome[r].data
           ELSE /\ DOMAIN resp[r][1].body = {"success", "data", "message"}
                /\ resp[r][1].body.success = TRUE
                /\ resp[r][1].body.data = outcome[r].data

C4_Witness ==
    \E r \in Reqs :
        /\ IsUpload(r) /\ Done(r) /\ Is2xx(outcome[r]) /\ outcome[r].status # 200
        /\ resp[r][1].status = 200

\* C5: when the webhook answers with a non-2xx status the relay answers 502
\* and its body carries the downstream status and the downstream body.
C5_Non2xxIs502 ==
    \A r \in Reqs :
      (IsUpload(r) /\ Done(r) /\ IsNon2xx(outcome[r])) =>
        /\ Len(resp[r]) = 1
        /\ resp[r][1].status = 502
        /\ IF variant = "memory"
           THEN /\ DOMAIN resp[r][1].body = {"error", "details"}
                /\ resp[r][1].body.error = "N8N Error: " \o ToString(outcome[r].status)
                /\ resp[r][1].body.details = outcome[r].data
           ELSE /\ "message" \in DOMAIN resp[r][1].body
                /\ resp[r][1].body.message =
                     "N8N Error: " \o ToString(outcome[r].status) \o " - "
                     \o ToString(outcome[r].data)

C5_Witness ==
    \E r \in Reqs :
        IsUpload(r) /\ Done(r) /\ IsNon2xx(outcome[r]) /\ resp[r][1].status = 502

\* C6: when the call to the webhook runs into its deadline (300 s in the
\* memory variant, 30 s in the disk variant) the relay answers 504 in both
\* variants, and in the disk variant the staged file has been removed.
C6_TimeoutIs504 ==
    \A r \in Reqs :
      (IsUpload(r) /\ Done(r) /\ outcome[r].kind = "timeout") =>
        /\ calls[r][1].timeout = (IF variant = "memory" THEN 300000 ELSE 30000)
        /\ Len(resp[r]) = 1
        /\ resp[r][1].status = 504
        /\ Staged(r) => ~Exists(files, reqFile[r].path)

SaysUnreachable(body) ==
    IF variant = "memory"
    THEN "error" \in DOMAIN body /\ body.error = "Cannot reach N8N service"
    ELSE "message" \in DOMAIN body /\ body.message = "Cannot reach N8N service"

CarriesMessage(body, msg) ==
    IF variant = "memory"
    THEN "error" \in DOMAIN body /\ body.error = msg
    ELSE "message" \in DOMAIN body /\ body.message = msg

\* C7: a network-level failure without a response that is not a timeout is
\* answered 503 with a body saying that the downstream service cannot be
\* reached; a failure with neither a response nor an issued request is
\* answered 500 with the exception's message.
C7_UnreachableIs503OtherIs500 ==
    \A r \in Reqs :
      (IsUpload(r) /\ Done(r)) =>
        /\ outcome[r].kind = "network" =>
             /\ Len(resp[r]) = 1
             /\ resp[r][1].status = 503
             /\ SaysUnreachable(resp[r][1].body)
        /\ outcome[r].kind = "setup" =>
             /\ Len(resp[r]) = 1
             /\ resp[r][1].status = 500
             /\ CarriesMessage(resp[r][1].body, "request setup failed")

C7_Witness ==
    \E r, q \in Reqs :
        /\ IsUpload(r) /\ Done(r) /\ outcome[r].kind = "network"
        /\ IsUpload(q) /\ Done(q) /\ outcome[q].kind = "setup"
        /\ resp[r][1].status = 503 /\ resp[q][1].status = 500


\* The status the error table gives to a failed upload (0: none given).
TableStatus(r) ==
    CASE ~upl[r].present                -> 400
      [] reqFile[r] = NoFile            -> 0
      [] outcome[r].kind = "timeout"    -> 504
      [] outcome[r].kind = "response"   -> 502
      [] outcome[r].kind = "network"    -> 503
      [] OTHER                          -> 500

Failed(r) == IsUpload(r) /\ Done(r) /\ ~Is2xx(outcome[r])

\* C8: every failure of an upload (missing file, file over the size limit,
\* timeout, downstream non-2xx, downstream unreachable, any other exception)
\* is caught at the request boundary: the client receives exactly one
\* response, a JSON body with an `error` or `message` field, with the status
\* of the error table.
C8_EveryFailureIsJsonError ==
    \A r \in Reqs :
      Failed(r) =>
        /\ Len(resp[r]) = 1
        /\ resp[r][1].type = "json"
        /\ {"error", "message"} \cap DOMAIN resp[r][1].body # {}
        /\ TableStatus(r) # 0 => resp[r][1].status = TableStatus(r)

\* C9: concurrent uploads are independent under every interleaving of their
\* suspension points: each request stages a file of its own name, which holds
\* its own bytes until its own cleanup; the fs calls of a request name only
\* its own file; and the outbound call and the response of a request are
\* determined by its own file and its own downstream outcome.
C9_RequestsAreIndependent ==
    \A r \in Reqs : IsUpload(r) =>
      /\ \A q \in Reqs \ {r} :
           /\ (Staged(r) /\ IsUpload(q) /\ Staged(q)) => reqFile[r].path # reqFile[q].path
           /\ (IsUpload(q) /\ Done(r) /\ Done(q)
               /\ upl[r] = upl[q] /\ outcome[r] = outcome[q]) =>
                 /\ resp[r] = resp[q]
                 /\ calls[r] = calls[q]
      /\ \A i \in DOMAIN fsLog[r] : fsLog[r][i].path = reqFile[r].path
      /\ (Staged(r) /\ pc[r] \in {"handler", "await"}) =>
           /\ Exists(files, reqFile[r].path)
           /\ files[reqFile[r].path] = upl[r].content
      /\ \A i \in DOMAIN calls[r] :
           /\ calls[r][i].bytes = upl[r].content
           /\ calls[r][i].filename = upl[r].originalname

\* Two uploads of the same filename overlap in the disk variant: one has
\* ended and cleaned up while the other still awaits the webhook.
C9_Witness ==
    \E r, q \in Reqs :
        /\ r # q /\ IsUpload(r) /\ IsUpload(q) /\ Staged(r) /\ Staged(q)
        /\ upl[r].originalname = upl[q].originalname
        /\ Done(q) /\ Unlinks(q) # {} /\ Len(calls[q]) = 1
        /\ pc[r] = "await" /\ r < q

RecordOutput ==
    {"record", "analysis-summary", "analysis-category", "analysis-item",
     "edited-summary", "edited-category", "edited-item", "simulated-ok"}

Logged(r, line) == \E i \in DOMAIN out[r] : out[r][i] = line

\* C10: for POST /api/save-analysis the token exchange precedes every record
\* or summary output; if it fails, no record and no summary is emitted and
\* the answer is 500 {success: false, error}; only if it succeeds is the
\* record logged and the answer 200 {success: true, salesforceId, savedAt}.
C10_TokenBeforeRecord ==
    \A r \in Reqs : kind[r] = "save" =>
      /\ \A i \in DOMAIN out[r] :
           out[r][i] \in RecordOutput =>
             \E j \in 1..(i - 1) :
               /\ out[r][j] = "token-ok"
               /\ \E k \in 1..(j - 1) : out[r][k] = "token-request"
      /\ Done(r) =>
           /\ Len(resp[r]) = 1
           /\ ~tokenRes[r].ok =>
                /\ \A i \in DOMAIN out[r] : out[r][i] \notin RecordOutput
                /\ resp[r][1].status = 500
                /\ DOMAIN resp[r][1].body = {"success", "error"}
                /\ resp[r][1].body.success = FALSE
           /\ Logged(r, "record") => tokenRes[r].ok
           /\ resp[r][1].status = 200 =>
                /\ tokenRes[r].ok
                /\ Logged(r, "record")
                /\ DOMAIN resp[r][1].body = {"success", "salesforceId", "savedAt"}
                /\ resp[r][1].body.success = TRUE

\* One save request ended on a failed token exchange, another on a
\* successful one.
C10_Witness ==
    \E r, q \in Reqs :
        /\ kind[r] = "save" /\ Done(r) /\ ~tokenRes[r].ok /\ resp[r][1].status = 500
        /\ kind[q] = "save" /\ Done(q) /\ tokenRes[q].ok /\ resp[q][1].status = 200
        /\ Logged(q, "record")

=============================================================================
